---- MODULE Spec2Model ----
(***************************************************************************)
(* Scan orchestration of gmail-scanner (cmd/api/main.go): the StartScan,   *)
(* CancelScan handlers, the performScan goroutine, the shared scan state   *)
(* guarded by scanMutex, the one-slot cancelScan channel and the article   *)
(* store written through Database.IndexArticle.                            *)
(*                                                                         *)
(* One step of the model is one critical section under scanMutex, one      *)
(* channel operation or one call to a collaborator (mailbox, store).       *)
(* A non-blocking select that finds no signal is taken together with the   *)
(* statement that follows it.  The content of the mailbox is chosen when   *)
(* the scan task reads it: the size of a folder at FetchMessages, the      *)
(* links of a message when the message loop reaches it.                    *)
(***************************************************************************)
EXTENDS Integers, Sequences, FiniteSets, TLC

\* ---- bounds of the model ----
NumStart  == 2     \* concurrent startScan request handlers
NumCancel == 2     \* concurrent cancelScanHandler request handlers
MaxTasks  == 2     \* goroutine slots for performScan
MaxScans  == 2     \* StartScan calls that take the running flag
MaxSmall  == 1     \* messages of the largest folder of a small mailbox
LongScans == 1     \* StartScan calls that take the running flag, long folders
MaxMsgs   == 12    \* messages the mailbox returns to one scan
MaxLinks  == 2     \* links of one message
MaxArticles == 2   \* links the mailbox returns to one scan
PlainLinks == 1    \* links the mailbox returns to one scan, plain mailbox
MaxRows   == 3     \* rows ever inserted into the articles table by direct calls
MaxParams == 3     \* query parameters of one url
MaxPath   == 3     \* tokens of one url path
MaxTitle  == 21    \* characters of one title
MaxAnchors == 3    \* a[href] elements of one document
NearEdge  == 1     \* distance of the uint32 inputs' halves from 0 and from 2^16 - 1
MaxParts  == 3     \* parts of one multipart body
MaxHeading == 9    \* bytes of the longest heading text
MaxDepth  == 6     \* ancestor levels of a link that hold headings
MaxHeadings == 3   \* heading-like elements around one link

\* ---- program constants ----
CheckEvery == 10   \* j%10 == 0
ChanCap    == 1    \* make(chan bool, 1)
MinTitle   == 20   \* len(title) < 20
MinHref    == 10   \* len(href) < 10
MinUsable  == 3    \* len(t) < 3
AncestorLevels == 5  \* for i := 0; i < 5; i++

StartProcs  == 1..NumStart
CancelProcs == 1..NumCancel
TaskIds     == 1..MaxTasks

URLs        == {"u1", "u2"}
Titles      == {"t1", "t2"}
\* the title of the links the mailbox returns
MailTitle   == "t1"
\* The environment of a run: the folder sizes the mailbox can return and the
\* number of scans the clients ask for.  A small mailbox with several scans, or
\* a mailbox with a folder longer than the check interval and fewer scans.
Requests    == {<< >>, <<"A">>, <<"A", "B">>}
\* requests that also name three folders
WideRequests == Requests \cup {<<"A", "B", "C">>}
SmallMailbox == [sizes |-> 0..MaxSmall, scans |-> MaxScans, links |-> MaxArticles,
                 requests |-> Requests]
LongMailbox  == [sizes |-> {0, 1, CheckEvery + 1}, scans |-> LongScans,
                 links |-> MaxArticles, requests |-> Requests]
PlainMailbox == [sizes |-> 0..MaxSmall, scans |-> MaxScans, links |-> PlainLinks,
                 requests |-> Requests]
\* one scan of up to three folders
WideMailbox  == [sizes |-> 0..MaxSmall, scans |-> LongScans, links |-> PlainLinks,
                 requests |-> WideRequests]

ConnectErr == "Falha ao conectar IMAP"
CancelMsg  == "Varredura cancelada pelo usuario"

RECURSIVE SeqsUpTo(_, _)
SeqsUpTo(S, n) ==
    IF n = 0 THEN {<< >>}
    ELSE LET shorter == SeqsUpTo(S, n - 1)
         IN  shorter \cup {Append(s, x) : s \in {q \in shorter : Len(q) = n - 1}, x \in S}

\* the links of one message: extractLinks emits a url once
LinkLists == {ls \in SeqsUpTo(URLs, MaxLinks) :
                \A a, b \in 1..Len(ls) : a # b => ls[a] # ls[b]}

VARIABLES
    isScanning,     \* the running flag
    scanStatus,     \* ScanRunSummary
    scanProgress,   \* ScanProgress
    cancelScan,     \* number of signals buffered in the channel
    store,          \* rows of the articles table: id, url, title
    nextId,         \* the next id of the AUTOINCREMENT primary key
    call,           \* a direct call of a function: name, argument, result
    limits,         \* the environment of this run (never changes)
    start,          \* startScan handlers: position and request
    cancel,         \* cancelScanHandler handlers: position
    reply,          \* the response written by the step just taken, "" if none
    tasks,          \* performScan goroutines: position and locals
    scanNo,         \* StartScan calls that took the flag so far
    accepted,       \* history: the running scan has had a cancel answered 'cancelling'
    sinceSignal,    \* history: messages processed while the buffered signal was pending
    sigScan,        \* history: the scan the buffered signal was posted for, 0 if none
    last            \* history: the locals of the scan task that exited last

vars == <<isScanning, scanStatus, scanProgress, cancelScan, store, nextId, call, limits,
          start, cancel, reply, tasks, scanNo, accepted, sinceSignal, sigScan, last>>

\* ScanProgress{Status: "idle"}
InitProgress ==
    [CurrentFolder |-> "", FoldersTotal |-> 0, FoldersProcessed |-> 0,
     EmailsTotal |-> 0, EmailsProcessed |-> 0, ArticlesFound |-> 0,
     PercentComplete |-> 0, Status |-> "idle"]

\* ScanStatus{IsRunning: false}
InitStatus ==
    [IsRunning |-> FALSE, LastScanTime |-> 0, LastEmailsScanned |-> 0, LastError |-> ""]

NoTask ==
    [pc |-> "none", folders |-> << >>, i |-> 0, n |-> 0, j |-> 0, links |-> << >>,
     total |-> 0, conn |-> FALSE, seen |-> 0, added |-> 0, walked |-> 0, failedAt |-> 0,
     exit |-> "", scan |-> 0, by |-> 0]

IdleStart  == [pc |-> "idle", folders |-> << >>]
IdleCancel == [pc |-> "idle", scan |-> 0]

\* no direct call is modelled
NoCall == [op |-> "none", arg |-> << >>, res |-> << >>]

InitState ==
    /\ isScanning = FALSE
    /\ scanStatus = InitStatus
    /\ scanProgress = InitProgress
    /\ cancelScan = 0
    /\ store = {}
    /\ nextId = 1
    /\ start = [h \in StartProcs |-> IdleStart]
    /\ cancel = [c \in CancelProcs |-> IdleCancel]
    /\ reply = ""
    /\ tasks = [t \in TaskIds |-> NoTask]
    /\ scanNo = 0
    /\ accepted = FALSE
    /\ sinceSignal = 0
    /\ sigScan = 0
    /\ last = NoTask

Init == InitState /\ limits = SmallMailbox /\ call = NoCall

InitLong == InitState /\ limits = LongMailbox /\ call = NoCall

InitPlain == InitState /\ limits = PlainMailbox /\ call = NoCall

InitWide == InitState /\ limits = WideMailbox /\ call = NoCall

Live(t) == tasks[t].pc # "none"

\* ------------------------------------------------------------------
\* startScan
\* ------------------------------------------------------------------

\* if len(scanReq.Folders) == 0 { scanReq.Folders = []string{"INBOX"} }
DefaultFolders(req) == IF Len(req) = 0 THEN <<"INBOX">> ELSE req

\* a startScan that never finds a scan running
AlreadyRunningNever == FALSE

\* if isScanning { ... return }
AlreadyRunning == isScanning

\* a startScan that resets the progress record before it tests the flag
StartScanEntryResets(h) ==
    /\ start[h].pc = "idle"
    /\ scanProgress' = InitProgress
    /\ IF AlreadyRunning
       THEN /\ reply' = "conflict"
            /\ UNCHANGED <<start, isScanning, scanStatus, scanNo, accepted, last>>
       ELSE /\ scanNo < limits.scans
            /\ \E req \in limits.requests :
                 start' = [start EXCEPT ![h] =
                             [pc |-> "token", folders |-> DefaultFolders(req)]]
            /\ reply' = ""
            /\ isScanning' = TRUE
            /\ scanStatus' = [scanStatus EXCEPT !.IsRunning = TRUE]
            /\ scanNo' = scanNo + 1
            /\ accepted' = FALSE
            /\ last' = NoTask
    /\ UNCHANGED <<limits, call, cancelScan, store, nextId, cancel, tasks, sinceSignal, sigScan>>

\* the first critical section of startScan and the parsing of the request body
StartScanEntry(h) ==
    /\ start[h].pc = "idle"
    /\ IF AlreadyRunning
       THEN /\ reply' = "conflict"
            /\ UNCHANGED <<limits, call, start, isScanning, scanStatus, scanNo, accepted, last>>
       ELSE /\ scanNo < limits.scans
            /\ \E req \in limits.requests :
                 start' = [start EXCEPT ![h] =
                             [pc |-> "token", folders |-> DefaultFolders(req)]]
            /\ reply' = ""
            /\ isScanning' = TRUE
            /\ scanStatus' = [scanStatus EXCEPT !.IsRunning = TRUE]
            /\ scanNo' = scanNo + 1
            /\ accepted' = FALSE
            /\ last' = NoTask
    /\ UNCHANGED <<limits, call, scanProgress, cancelScan, store, nextId, cancel, tasks,
                   sinceSignal, sigScan>>

\* an error branch that answers without clearing the running flag
StartUnauthorizedKeepsFlag(h) ==
    /\ UNCHANGED <<isScanning, scanStatus>>
    /\ start' = [start EXCEPT ![h] = IdleStart]
    /\ reply' = "unauthorized"

\* an error branch that also records the failure in LastError
StartUnauthorizedRecordsError(h) ==
    /\ isScanning' = FALSE
    /\ scanStatus' = [scanStatus EXCEPT !.IsRunning = FALSE, !.LastError = "unauthorized"]
    /\ start' = [start EXCEPT ![h] = IdleStart]
    /\ reply' = "unauthorized"

\* the error branch of auth.GetAuthToken and of auth.GetSession
StartUnauthorized(h) ==
    /\ isScanning' = FALSE
    /\ scanStatus' = [scanStatus EXCEPT !.IsRunning = FALSE]
    /\ start' = [start EXCEPT ![h] = IdleStart]
    /\ reply' = "unauthorized"

\* token, err := auth.GetAuthToken(r)
StartGetAuthToken(h) ==
    /\ start[h].pc = "token"
    /\ \E ok \in BOOLEAN :
         IF ok
         THEN /\ start' = [start EXCEPT ![h].pc = "session"]
              /\ reply' = ""
              /\ UNCHANGED <<limits, call, isScanning, scanStatus>>
         ELSE StartUnauthorized(h)
    /\ UNCHANGED <<limits, call, scanProgress, cancelScan, store, nextId, cancel, tasks, scanNo, accepted,
                   sinceSignal, sigScan, last>>

\* session, err := auth.GetSession(token)
StartGetSession(h) ==
    /\ start[h].pc = "session"
    /\ \E ok \in BOOLEAN :
         IF ok
         THEN /\ start' = [start EXCEPT ![h].pc = "drain"]
              /\ reply' = ""
              /\ UNCHANGED <<limits, call, isScanning, scanStatus>>
         ELSE StartUnauthorized(h)
    /\ UNCHANGED <<limits, call, scanProgress, cancelScan, store, nextId, cancel, tasks, scanNo, accepted,
                   sinceSignal, sigScan, last>>

\* select { case <-cancelScan: default: }
StartDrain(h) ==
    /\ start[h].pc = "drain"
    /\ cancelScan' = IF cancelScan > 0 THEN cancelScan - 1 ELSE cancelScan
    /\ sinceSignal' = 0
    /\ sigScan' = 0
    /\ start' = [start EXCEPT ![h].pc = "respond"]
    /\ reply' = ""
    /\ UNCHANGED <<limits, call, isScanning, scanStatus, scanProgress, store, nextId, cancel, tasks, scanNo,
                   accepted, last>>

\* the response {"status": "started", ...}
StartRespond(h) ==
    /\ start[h].pc = "respond"
    /\ start' = [start EXCEPT ![h].pc = "go"]
    /\ reply' = "started"
    /\ UNCHANGED <<limits, call, isScanning, scanStatus, scanProgress, cancelScan, store, nextId, cancel, tasks,
                   scanNo, accepted, sinceSignal, sigScan, last>>

\* go performScan(session, scanReq.Folders), and the return of the handler
StartSpawn(h) ==
    /\ start[h].pc = "go"
    /\ \E t \in TaskIds :
         /\ ~Live(t)
         /\ \A u \in TaskIds : u < t => Live(u)
         /\ tasks' = [tasks EXCEPT ![t] =
                        [NoTask EXCEPT !.pc = "init", !.folders = start[h].folders,
                                       !.scan = scanNo]]
    /\ start' = [start EXCEPT ![h] = IdleStart]
    /\ reply' = ""
    /\ UNCHANGED <<limits, call, isScanning, scanStatus, scanProgress, cancelScan, store, nextId, cancel, scanNo,
                   accepted, sinceSignal, sigScan, last>>

\* ------------------------------------------------------------------
\* cancelScanHandler
\* ------------------------------------------------------------------

\* a cancelScanHandler that posts whether or not a scan is running
CancelCheckAlways(c) ==
    /\ cancel[c].pc = "idle"
    /\ reply' = ""
    /\ cancel' = [cancel EXCEPT ![c] = [pc |-> "post", scan |-> scanNo]]
    /\ UNCHANGED <<limits, call, isScanning, scanStatus, scanProgress, cancelScan, store,
                   nextId, start, tasks, scanNo, accepted, sinceSignal, sigScan, last>>

\* the critical section of cancelScanHandler: if !isScanning { ... return }
CancelCheck(c) ==
    /\ cancel[c].pc = "idle"
    /\ IF ~isScanning
       THEN /\ reply' = "nothing running"
            /\ UNCHANGED cancel
       ELSE /\ reply' = ""
            /\ cancel' = [cancel EXCEPT ![c] = [pc |-> "post", scan |-> scanNo]]
    /\ UNCHANGED <<limits, call, isScanning, scanStatus, scanProgress, cancelScan, store, nextId, start, tasks,
                   scanNo, accepted, sinceSignal, sigScan, last>>

\* a plain send cancelScan <- true, which waits while the buffer is full
CancelPostBlocking(c) ==
    /\ cancel[c].pc = "post"
    /\ cancelScan < ChanCap
    /\ cancelScan' = cancelScan + 1
    /\ sinceSignal' = 0
    /\ sigScan' = cancel[c].scan
    /\ cancel' = [cancel EXCEPT ![c] = IdleCancel]
    /\ reply' = "cancelling"
    /\ accepted' = (accepted \/ (/\ isScanning
                                 /\ scanNo = cancel[c].scan
                                 /\ \A t \in TaskIds : tasks[t].exit = ""))
    /\ UNCHANGED <<limits, call, isScanning, scanStatus, scanProgress, store, nextId, start,
                   tasks, scanNo, last>>

\* select { case cancelScan <- true: default: } and the response "cancelling"
CancelPost(c) ==
    /\ cancel[c].pc = "post"
    /\ IF cancelScan < ChanCap
       THEN /\ cancelScan' = cancelScan + 1
            /\ sinceSignal' = 0
            /\ sigScan' = cancel[c].scan
       ELSE UNCHANGED <<limits, call, cancelScan, sinceSignal, sigScan>>
    /\ cancel' = [cancel EXCEPT ![c] = IdleCancel]
    /\ reply' = "cancelling"
    /\ accepted' = (accepted \/ (/\ isScanning
                                 /\ scanNo = cancel[c].scan
                                 /\ \A t \in TaskIds : tasks[t].exit = ""))
    /\ UNCHANGED <<limits, call, isScanning, scanStatus, scanProgress, store, nextId, start,
                   tasks, scanNo, last>>

\* ------------------------------------------------------------------
\* performScan
\* ------------------------------------------------------------------

\* the critical section "Atualizar progresso inicial"
ScanInit(t) ==
    /\ tasks[t].pc = "init"
    /\ scanProgress' = [InitProgress EXCEPT !.FoldersTotal = Len(tasks[t].folders),
                                            !.Status = "connecting"]
    /\ tasks' = [tasks EXCEPT ![t].pc = "connect"]
    /\ reply' = ""
    /\ UNCHANGED <<limits, call, isScanning, scanStatus, cancelScan, store, nextId, start, cancel, scanNo,
                   accepted, sinceSignal, sigScan, last>>

\* imapClient, err := session.GetIMAPClient() and its error branch
ScanConnect(t) ==
    /\ tasks[t].pc = "connect"
    /\ \E ok \in BOOLEAN :
         IF ok
         THEN /\ tasks' = [tasks EXCEPT ![t].pc = "scanning", ![t].conn = TRUE]
              /\ UNCHANGED <<limits, call, scanStatus, scanProgress>>
         ELSE /\ scanStatus' = [scanStatus EXCEPT !.LastError = ConnectErr]
              /\ scanProgress' = [scanProgress EXCEPT !.Status = "error"]
              /\ tasks' = [tasks EXCEPT ![t].pc = "defer", ![t].exit = "error"]
    /\ reply' = ""
    /\ UNCHANGED <<limits, call, isScanning, cancelScan, store, nextId, start, cancel, scanNo, accepted,
                   sinceSignal, sigScan, last>>

\* scanProgress.Status = "scanning"
ScanSetScanning(t) ==
    /\ tasks[t].pc = "scanning"
    /\ scanProgress' = [scanProgress EXCEPT !.Status = "scanning"]
    /\ tasks' = [tasks EXCEPT ![t].pc = "folder", ![t].i = 0]
    /\ reply' = ""
    /\ UNCHANGED <<limits, call, isScanning, scanStatus, cancelScan, store, nextId, start, cancel, scanNo,
                   accepted, sinceSignal, sigScan, last>>

\* a progress update that counts the folder about to be walked as processed
ScanFolderBeginCountsCurrent(t) ==
    /\ tasks[t].pc = "folder"
    /\ tasks[t].i < Len(tasks[t].folders)
    /\ cancelScan = 0
    /\ scanProgress' = [scanProgress EXCEPT
                          !.CurrentFolder = tasks[t].folders[tasks[t].i + 1],
                          !.FoldersProcessed = tasks[t].i,
                          !.PercentComplete = ((tasks[t].i + 1) * 100) \div Len(tasks[t].folders)]
    /\ tasks' = [tasks EXCEPT ![t].pc = "fetch"]
    /\ reply' = ""
    /\ UNCHANGED <<limits, call, isScanning, scanStatus, cancelScan, store, nextId, start, cancel,
                   scanNo, accepted, sinceSignal, sigScan, last>>

\* the head of the folder loop: the select finds no signal, the progress is updated
ScanFolderBegin(t) ==
    /\ tasks[t].pc = "folder"
    /\ tasks[t].i < Len(tasks[t].folders)
    /\ cancelScan = 0
    /\ scanProgress' = [scanProgress EXCEPT
                          !.CurrentFolder = tasks[t].folders[tasks[t].i + 1],
                          !.FoldersProcessed = tasks[t].i,
                          !.PercentComplete = (tasks[t].i * 100) \div Len(tasks[t].folders)]
    /\ tasks' = [tasks EXCEPT ![t].pc = "fetch"]
    /\ reply' = ""
    /\ UNCHANGED <<limits, call, isScanning, scanStatus, cancelScan, store, nextId, start, cancel, scanNo,
                   accepted, sinceSignal, sigScan, last>>

\* the head of the folder loop: case <-cancelScan
ScanFolderCancel(t) ==
    /\ tasks[t].pc = "folder"
    /\ tasks[t].i < Len(tasks[t].folders)
    /\ cancelScan > 0
    /\ cancelScan' = cancelScan - 1
    /\ sinceSignal' = 0
    /\ sigScan' = 0
    /\ tasks' = [tasks EXCEPT ![t].pc = "cancelled", ![t].by = sigScan]
    /\ reply' = ""
    /\ UNCHANGED <<limits, call, isScanning, scanStatus, scanProgress, store, nextId, start, cancel, scanNo,
                   accepted, last>>

\* the critical section of both cancellation branches
ScanCancelled(t) ==
    /\ tasks[t].pc = "cancelled"
    /\ scanStatus' = [scanStatus EXCEPT !.LastError = CancelMsg]
    /\ scanProgress' = [scanProgress EXCEPT !.Status = "cancelled"]
    /\ tasks' = [tasks EXCEPT ![t].pc = "close", ![t].exit = "cancelled"]
    /\ reply' = ""
    /\ UNCHANGED <<limits, call, isScanning, cancelScan, store, nextId, start, cancel, scanNo, accepted,
                   sinceSignal, sigScan, last>>

\* a folder loop that returns on the first fetch failure
ScanFetchAborts(t) ==
    /\ tasks[t].pc = "fetch"
    /\ \/ /\ tasks' = [tasks EXCEPT ![t].pc = "close", ![t].exit = "error",
                                    ![t].walked = @ + 1,
                                    ![t].failedAt = IF @ = 0 THEN tasks[t].i + 1 ELSE @]
          /\ UNCHANGED scanProgress
       \/ \E n \in limits.sizes :
            /\ scanProgress.EmailsTotal + n <= MaxMsgs
            /\ scanProgress' = [scanProgress EXCEPT !.EmailsTotal = @ + n]
            /\ tasks' = [tasks EXCEPT ![t].pc = "msg", ![t].n = n, ![t].j = 0,
                                      ![t].walked = @ + 1]
    /\ reply' = ""
    /\ UNCHANGED <<limits, call, isScanning, scanStatus, cancelScan, store, nextId, start, cancel, scanNo,
                   accepted, sinceSignal, sigScan, last>>

\* messages, err := imapClient.FetchMessages(folder, 0); if err != nil { continue };
\* scanProgress.EmailsTotal += len(messages)
ScanFetch(t) ==
    /\ tasks[t].pc = "fetch"
    /\ \/ /\ tasks' = [tasks EXCEPT ![t].pc = "folder", ![t].i = @ + 1,
                                    ![t].walked = @ + 1,
                                    ![t].failedAt = IF @ = 0 THEN tasks[t].i + 1 ELSE @]
          /\ UNCHANGED scanProgress
       \/ \E n \in limits.sizes :
            /\ scanProgress.EmailsTotal + n <= MaxMsgs
            /\ scanProgress' = [scanProgress EXCEPT !.EmailsTotal = @ + n]
            /\ tasks' = [tasks EXCEPT ![t].pc = "msg", ![t].n = n, ![t].j = 0,
                                      ![t].walked = @ + 1]
    /\ reply' = ""
    /\ UNCHANGED <<limits, call, isScanning, scanStatus, cancelScan, store, nextId, start, cancel, scanNo,
                   accepted, sinceSignal, sigScan, last>>

\* a check made every 20 messages
AtCheckRarely(j) == j % (2 * CheckEvery) = 0

\* if j%10 == 0 { select { case <-cancelScan: ... default: } }
AtCheck(j) == j % CheckEvery = 0

\* the end of the message loop: the next folder
ScanFolderEnd(t) ==
    /\ tasks[t].pc = "msg"
    /\ tasks[t].j >= tasks[t].n
    /\ tasks' = [tasks EXCEPT ![t].pc = "folder", ![t].i = @ + 1]
    /\ reply' = ""
    /\ UNCHANGED <<limits, call, isScanning, scanStatus, scanProgress, cancelScan, store, nextId, start, cancel,
                   scanNo, accepted, sinceSignal, sigScan, last>>

\* the head of the message loop: no check is due or the select finds no signal
ScanMsgBegin(t) ==
    /\ tasks[t].pc = "msg"
    /\ tasks[t].j < tasks[t].n
    /\ ~(AtCheck(tasks[t].j) /\ cancelScan > 0)
    /\ \E ls \in LinkLists :
         /\ tasks[t].seen + Len(ls) <= limits.links
         /\ tasks' = [tasks EXCEPT ![t].pc = "links", ![t].links = ls,
                                   ![t].seen = @ + Len(ls)]
    /\ reply' = ""
    /\ UNCHANGED <<limits, call, isScanning, scanStatus, scanProgress, cancelScan, store, nextId, start, cancel,
                   scanNo, accepted, sinceSignal, sigScan, last>>

\* the head of the message loop: a check is due and the select receives the signal
ScanMsgCancel(t) ==
    /\ tasks[t].pc = "msg"
    /\ tasks[t].j < tasks[t].n
    /\ AtCheck(tasks[t].j)
    /\ cancelScan > 0
    /\ cancelScan' = cancelScan - 1
    /\ sinceSignal' = 0
    /\ sigScan' = 0
    /\ tasks' = [tasks EXCEPT ![t].pc = "cancelled", ![t].by = sigScan]
    /\ reply' = ""
    /\ UNCHANGED <<limits, call, isScanning, scanStatus, scanProgress, store, nextId, start, cancel, scanNo,
                   accepted, last>>

\* the rows of the table with the url of the article
Stored(url) == {r \in store : r.url = url}

\* an articles table without the UNIQUE index on url
IndexArticleNoIndex(article) ==
    store \cup {[id |-> nextId, url |-> article.url, title |-> article.title]}

\* INSERT OR IGNORE INTO articles (url, ...) under the UNIQUE index idx_articles_url:
\* the table after the statement
IndexArticle(article) ==
    IF Stored(article.url) # {}
    THEN store
    ELSE store \cup {[id |-> nextId, url |-> article.url, title |-> article.title]}

\* the error IndexArticle returns when the statement itself runs: OR IGNORE
\* turns the conflict on url into a skipped row
IndexArticleErr(article) == "nil"

\* the AUTOINCREMENT sequence after a statement that left the table as rows
NextIdAfter(rows) == IF rows = store THEN nextId ELSE nextId + 1

\* a link loop that leaves the message on the first failed insert (break)
ScanIndexLinkBreaks(t) ==
    /\ tasks[t].pc = "links"
    /\ tasks[t].links # << >>
    /\ LET url == Head(tasks[t].links)
       IN  \/ /\ tasks' = [tasks EXCEPT ![t].links = << >>]
              /\ UNCHANGED <<store, nextId>>
           \/ /\ IndexArticleErr([url |-> url, title |-> MailTitle]) = "nil"
              /\ store' = IndexArticle([url |-> url, title |-> MailTitle])
              /\ nextId' = NextIdAfter(store')
              /\ tasks' = [tasks EXCEPT ![t].links = Tail(@),
                                        ![t].total = @ + 1,
                                        ![t].added = IF Stored(url) # {} THEN @ ELSE @ + 1]
    /\ reply' = ""
    /\ UNCHANGED <<limits, call, isScanning, scanStatus, scanProgress, cancelScan, start, cancel, scanNo,
                   accepted, sinceSignal, sigScan, last>>

\* the link loop: db.IndexArticle(article) fails (continue) or returns nil (count)
ScanIndexLink(t) ==
    /\ tasks[t].pc = "links"
    /\ tasks[t].links # << >>
    /\ LET url == Head(tasks[t].links)
       IN  \/ /\ tasks' = [tasks EXCEPT ![t].links = Tail(@)]
              /\ UNCHANGED <<store, nextId>>
           \/ /\ IndexArticleErr([url |-> url, title |-> MailTitle]) = "nil"
              /\ store' = IndexArticle([url |-> url, title |-> MailTitle])
              /\ nextId' = NextIdAfter(store')
              /\ tasks' = [tasks EXCEPT ![t].links = Tail(@),
                                        ![t].total = @ + 1,
                                        ![t].added = IF Stored(url) # {} THEN @ ELSE @ + 1]
    /\ reply' = ""
    /\ UNCHANGED <<limits, call, isScanning, scanStatus, scanProgress, cancelScan, start, cancel, scanNo,
                   accepted, sinceSignal, sigScan, last>>

\* a message counted twice in EmailsProcessed
ScanMsgDoneCountsTwice(t) ==
    /\ tasks[t].pc = "links"
    /\ tasks[t].links = << >>
    /\ scanProgress' = [scanProgress EXCEPT !.EmailsProcessed = @ + 2,
                                            !.ArticlesFound = tasks[t].total]
    /\ tasks' = [tasks EXCEPT ![t].pc = "msg", ![t].j = @ + 1]
    /\ sinceSignal' = IF cancelScan > 0 THEN sinceSignal + 1 ELSE 0
    /\ UNCHANGED sigScan
    /\ reply' = ""
    /\ UNCHANGED <<limits, call, isScanning, scanStatus, cancelScan, store, nextId, start, cancel, scanNo,
                   accepted, last>>

\* scanProgress.EmailsProcessed++; scanProgress.ArticlesFound = totalArticleCount
ScanMsgDone(t) ==
    /\ tasks[t].pc = "links"
    /\ tasks[t].links = << >>
    /\ scanProgress' = [scanProgress EXCEPT !.EmailsProcessed = @ + 1,
                                            !.ArticlesFound = tasks[t].total]
    /\ tasks' = [tasks EXCEPT ![t].pc = "msg", ![t].j = @ + 1]
    /\ sinceSignal' = IF cancelScan > 0 THEN sinceSignal + 1 ELSE 0
    /\ UNCHANGED sigScan
    /\ reply' = ""
    /\ UNCHANGED <<limits, call, isScanning, scanStatus, cancelScan, store, nextId, start, cancel, scanNo,
                   accepted, last>>

\* a final critical section that leaves the run summary as it was
ScanCompleteKeepsSummary(t) ==
    /\ tasks[t].pc = "folder"
    /\ tasks[t].i >= Len(tasks[t].folders)
    /\ scanProgress' = [scanProgress EXCEPT !.FoldersProcessed = Len(tasks[t].folders),
                                            !.PercentComplete = 100,
                                            !.ArticlesFound = tasks[t].total,
                                            !.Status = "completed"]
    /\ tasks' = [tasks EXCEPT ![t].pc = "close", ![t].exit = "completed"]
    /\ reply' = ""
    /\ UNCHANGED <<limits, call, isScanning, scanStatus, cancelScan, store, nextId, start, cancel, scanNo,
                   accepted, sinceSignal, sigScan, last>>

\* the folder loop is exhausted: the final critical section
ScanComplete(t) ==
    /\ tasks[t].pc = "folder"
    /\ tasks[t].i >= Len(tasks[t].folders)
    /\ scanStatus' = [scanStatus EXCEPT !.LastEmailsScanned = scanProgress.EmailsProcessed,
                                        !.LastError = ""]
    /\ scanProgress' = [scanProgress EXCEPT !.FoldersProcessed = Len(tasks[t].folders),
                                            !.PercentComplete = 100,
                                            !.ArticlesFound = tasks[t].total,
                                            !.Status = "completed"]
    /\ tasks' = [tasks EXCEPT ![t].pc = "close", ![t].exit = "completed"]
    /\ reply' = ""
    /\ UNCHANGED <<limits, call, isScanning, cancelScan, store, nextId, start, cancel, scanNo, accepted,
                   sinceSignal, sigScan, last>>

\* a return that runs no deferred Close
ScanCloseLeavesOpen(t) ==
    /\ tasks[t].pc = "close"
    /\ tasks' = [tasks EXCEPT ![t].pc = "defer"]
    /\ reply' = ""
    /\ UNCHANGED <<limits, call, isScanning, scanStatus, scanProgress, cancelScan, store, nextId,
                   start, cancel, scanNo, accepted, sinceSignal, sigScan, last>>

\* defer imapClient.Close()
ScanClose(t) ==
    /\ tasks[t].pc = "close"
    /\ tasks' = [tasks EXCEPT ![t].pc = "defer", ![t].conn = FALSE]
    /\ reply' = ""
    /\ UNCHANGED <<limits, call, isScanning, scanStatus, scanProgress, cancelScan, store, nextId, start, cancel,
                   scanNo, accepted, sinceSignal, sigScan, last>>

\* the deferred function of performScan
ScanExit(t) ==
    /\ tasks[t].pc = "defer"
    /\ isScanning' = FALSE
    /\ scanStatus' = [scanStatus EXCEPT !.IsRunning = FALSE,
                                        !.LastScanTime = tasks[t].scan]
    /\ scanProgress' = [scanProgress EXCEPT !.Status = "completed"]
    /\ last' = tasks[t]
    /\ tasks' = [tasks EXCEPT ![t] = NoTask]
    /\ reply' = ""
    /\ UNCHANGED <<limits, call, cancelScan, store, nextId, start, cancel, scanNo, accepted,
                   sinceSignal, sigScan>>

\* ------------------------------------------------------------------

StartStep(h) ==
    \/ StartGetAuthToken(h)
    \/ StartGetSession(h)
    \/ StartDrain(h)
    \/ StartRespond(h)
    \/ StartSpawn(h)

TaskStep(t) ==
    \/ ScanInit(t)
    \/ ScanConnect(t)
    \/ ScanSetScanning(t)
    \/ ScanFolderBegin(t)
    \/ ScanFolderCancel(t)
    \/ ScanCancelled(t)
    \/ ScanFetch(t)
    \/ ScanFolderEnd(t)
    \/ ScanMsgBegin(t)
    \/ ScanMsgCancel(t)
    \/ ScanIndexLink(t)
    \/ ScanMsgDone(t)
    \/ ScanComplete(t)
    \/ ScanClose(t)
    \/ ScanExit(t)

Next ==
    \/ \E h \in StartProcs : StartScanEntry(h)
    \/ \E h \in StartProcs : StartStep(h)
    \/ \E c \in CancelProcs : CancelCheck(c)
    \/ \E c \in CancelProcs : CancelPost(c)
    \/ \E t \in TaskIds : TaskStep(t)

Spec == Init /\ [][Next]_vars

\* ------------------------------------------------------------------
\* the article store under direct calls
\* ------------------------------------------------------------------

Articles == [url : URLs, title : Titles]

\* db.IndexArticle(article), called by any client of the Database
DbIndexArticle ==
    /\ nextId <= MaxRows
    /\ \E article \in Articles :
         /\ store' = IndexArticle(article)
         /\ nextId' = NextIdAfter(store')
         /\ call' = [op |-> "IndexArticle", arg |-> article,
                     res |-> IndexArticleErr(article)]
    /\ UNCHANGED <<limits, isScanning, scanStatus, scanProgress, cancelScan, start, cancel,
                   reply, tasks, scanNo, accepted, sinceSignal, sigScan, last>>

\* db.DeleteArticle(articleID): DELETE FROM articles WHERE id = ?
DbDeleteArticle ==
    /\ \E id \in 1..MaxRows :
         LET rows == {r \in store : r.id = id}
         IN  /\ store' = store \ rows
             /\ call' = [op |-> "DeleteArticle", arg |-> id,
                         res |-> IF rows = {} THEN "article not found" ELSE "nil"]
    /\ UNCHANGED <<limits, nextId, isScanning, scanStatus, scanProgress, cancelScan, start,
                   cancel, reply, tasks, scanNo, accepted, sinceSignal, sigScan, last>>

StoreNext ==
    \/ DbIndexArticle
    \/ DbDeleteArticle

\* the Database under any sequence of IndexArticle and DeleteArticle calls
StoreSpec == Init /\ [][StoreNext]_vars

\* the same program asked for one scan of up to three folders
WideSpec == InitWide /\ [][Next]_vars

\* the same program against a mailbox with long folders
LongSpec == InitLong /\ [][Next]_vars

\* Go schedules every runnable goroutine: a handler or a scan task that can take
\* a step takes it.  Clients are free to send no request.  Every mailbox call returns.
FairSpec ==
    /\ InitPlain
    /\ [][Next]_vars
    /\ \A h \in StartProcs : WF_vars(StartStep(h))
    /\ \A t \in TaskIds : WF_vars(TaskStep(t))

TypeOK ==
    /\ isScanning \in BOOLEAN
    /\ scanStatus.IsRunning = isScanning
    /\ cancelScan \in 0..ChanCap
    /\ \A r \in store : r.url \in URLs /\ r.title \in Titles /\ r.id \in 1..(nextId - 1)

\* ------------------------------------------------------------------
\* internal/imap: normalizeURL
\* ------------------------------------------------------------------

Range(s) == {s[i] : i \in DOMAIN s}

\* trackingParams
TrackingParams ==
    {"utm_source", "utm_medium", "utm_campaign", "utm_term", "utm_content",
     "ref", "source", "mc_cid", "mc_eid", "fbclid", "gclid", "dclid", "_ga", "_gl",
     "oly_enc_id", "oly_anon_id", "vero_id", "vero_conv", "spm", "share_token",
     "si", "feature"}

\* the parameter names of the inputs, in the byte order query.Encode sorts them by
ParamKeys == <<"fbclid", "id", "page", "utm_source">>

ParamVals == {"5", "nl"}

Params == [k : Range(ParamKeys), v : ParamVals]

\* a path is a sequence of the tokens "/" and "a"; with a host it is empty or
\* begins with "/"
Paths == {p \in SeqsUpTo({"/", "a"}, MaxPath) : p = << >> \/ p[1] = "/"}

\* a *url.URL as url.Parse returns it for an http(s) href
ParsedURLs ==
    [scheme : {"https"}, host : {"x.com"}, path : Paths,
     query : SeqsUpTo(Params, MaxParams), fragment : {"", "frag"}]

\* the values of parameter k in the order they appear in the raw query
ValuesOf(raw, k) ==
    LET hits == SelectSeq(raw, LAMBDA p : p.k = k)
    IN  [i \in DOMAIN hits |-> hits[i].v]

\* normalized.Query(): url.Values, a map from name to the list of its values
Query(raw) == [k \in {raw[i].k : i \in DOMAIN raw} |-> ValuesOf(raw, k)]

\* for _, param := range trackingParams { query.Del(param) }
Del(query, params) == [k \in (DOMAIN query) \ params |-> query[k]]

\* query.Encode(): names in sorted order, the values of a name in their order
RECURSIVE Encode(_, _)
Encode(query, i) ==
    IF i > Len(ParamKeys) THEN << >>
    ELSE LET k == ParamKeys[i]
             pairs == IF k \in DOMAIN query
                      THEN [j \in DOMAIN query[k] |-> [k |-> k, v |-> query[k][j]]]
                      ELSE << >>
         IN  pairs \o Encode(query, i + 1)

\* strings.TrimSuffix(path, "/")
TrimSuffix(path) ==
    IF path # << >> /\ path[Len(path)] = "/" THEN SubSeq(path, 1, Len(path) - 1) ELSE path

\* k=v&k=v
RECURSIVE QueryString(_)
QueryString(q) ==
    IF q = << >> THEN << >>
    ELSE <<q[1].k, "=", q[1].v>> \o
         (IF Len(q) > 1 THEN <<"&">> \o QueryString(Tail(q)) ELSE << >>)

\* u.String(): scheme://host path [?query] [#fragment], as a sequence of tokens
String(u) ==
    <<u.scheme, "://", u.host>> \o u.path \o
    (IF u.query # << >> THEN <<"?">> \o QueryString(u.query) ELSE << >>) \o
    (IF u.fragment # "" THEN <<"#", u.fragment>> ELSE << >>)

\* a normalizeURL that leaves the fragment in place
normalizeURLKeepsFragment(u) ==
    LET query == Del(Query(u.query), TrackingParams)
        normalized == [u EXCEPT !.query = IF DOMAIN query = {} THEN << >> ELSE Encode(query, 1),
                                !.path = TrimSuffix(u.path)]
    IN  String(normalized)

normalizeURL(u) ==
    LET query == Del(Query(u.query), TrackingParams)
        normalized == [u EXCEPT !.query = IF DOMAIN query = {} THEN << >> ELSE Encode(query, 1),
                                !.fragment = "",
                                !.path = TrimSuffix(u.path)]
    IN  String(normalized)

InitURL ==
    /\ InitState
    /\ limits = SmallMailbox
    /\ call \in {[op |-> "url", arg |-> u, res |-> << >>] : u \in ParsedURLs}

\* normalizeURL(parsedURL)
CallNormalizeURL ==
    /\ call.op = "url"
    /\ call' = [op |-> "normalizeURL", arg |-> call.arg, res |-> normalizeURL(call.arg)]
    /\ UNCHANGED <<limits, isScanning, scanStatus, scanProgress, cancelScan, store, nextId,
                   start, cancel, reply, tasks, scanNo, accepted, sinceSignal, sigScan, last>>

\* normalizeURL applied to every parsed url of the input set
UrlSpec == InitURL /\ [][CallNormalizeURL]_vars

\* ------------------------------------------------------------------
\* internal/imap: isValidTitle
\* ------------------------------------------------------------------

\* characters of a title: ASCII and two-byte letters of either case, and a digit
Chars == {"A", "a", "1", "É", "é"}

\* the number of bytes of the character's UTF-8 encoding
Utf8Len(c) == IF c \in {"É", "é"} THEN 2 ELSE 1

\* unicode.IsUpper(r)
IsUpper(c) == c \in {"A", "É"}

\* len(title): the length of a Go string is its number of bytes
RECURSIVE ByteLen(_)
ByteLen(title) == IF title = << >> THEN 0 ELSE Utf8Len(title[1]) + ByteLen(Tail(title))

\* titles: the empty one, and any first character followed by lowercase letters
TitleInputs ==
    {<< >>} \cup
    {<<first>> \o [i \in 1..n |-> fill] :
        first \in Chars, fill \in {"a", "é"}, n \in 0..(MaxTitle - 1)}

isValidTitle(title) ==
    IF ByteLen(title) < MinTitle THEN FALSE
    ELSE IF title # << >> THEN IsUpper(title[1])
    ELSE FALSE

InitTitle ==
    /\ InitState
    /\ limits = SmallMailbox
    /\ call \in {[op |-> "title", arg |-> t, res |-> << >>] : t \in TitleInputs}

\* if !isValidTitle(title) { return }
CallIsValidTitle ==
    /\ call.op = "title"
    /\ call' = [op |-> "isValidTitle", arg |-> call.arg, res |-> isValidTitle(call.arg)]
    /\ UNCHANGED <<limits, isScanning, scanStatus, scanProgress, cancelScan, store, nextId,
                   start, cancel, reply, tasks, scanNo, accepted, sinceSignal, sigScan, last>>

\* isValidTitle applied to every title of the input set
TitleSpec == InitTitle /\ [][CallIsValidTitle]_vars

\* ------------------------------------------------------------------
\* internal/imap: isIgnorableLink and extractLinks
\* ------------------------------------------------------------------

\* An href is a sequence of tokens, written as u.String() writes a url.
\* the number of bytes of a token
TokLen(tok) ==
    CASE tok \in {"/", "a", "b", "?", "=", "&", "#", "5"} -> 1
      [] tok \in {"nl", "id"} -> 2
      [] tok \in {"://", "ftp", "top"} -> 3
      [] tok \in {"http", "frag"} -> 4
      [] tok \in {"https", "x.com"} -> 5
      [] tok \in {"mailto:", "sharing"} -> 7
      [] tok \in {"utm_source"} -> 10
      [] tok \in {"unsubscribe", "Unsubscribe"} -> 11
      [] tok \in {"linkedin.com", "shareArticle", "sharearticle"} -> 12

\* len(href)
RECURSIVE HrefLen(_)
HrefLen(href) == IF href = << >> THEN 0 ELSE TokLen(href[1]) + HrefLen(Tail(href))

\* strings.ToLower, token by token
ToLower(href) ==
    [i \in DOMAIN href |->
        CASE href[i] = "Unsubscribe" -> "unsubscribe"
          [] href[i] = "shareArticle" -> "sharearticle"
          [] OTHER -> href[i]]

\* strings.Contains(s, pattern)
Contains(s, pattern) ==
    \E i \in 1..(Len(s) - Len(pattern) + 1) : SubSeq(s, i, i + Len(pattern) - 1) = pattern

\* ignoredPatterns, as written in the source
IgnoredPatterns ==
    {<<"unsubscribe">>, <<"preferences">>, <<"mailto:">>, <<"tel:">>,
     <<"facebook.com", "/", "sharer">>, <<"twitter.com", "/", "intent">>,
     <<"twitter.com", "/", "share">>, <<"linkedin.com", "/", "sharing">>,
     <<"linkedin.com", "/", "shareArticle">>, <<"pinterest.com", "/", "pin">>,
     <<"reddit.com", "/", "submit">>, <<"wa.me">>, <<"whatsapp.com">>, <<"t.me">>,
     <<"#">>}

isIgnorableLink(href) ==
    LET lowerHref == ToLower(href)
    IN  IF lowerHref # << >> /\ lowerHref[1] = "#" THEN TRUE
        ELSE IF HrefLen(href) < MinHref THEN TRUE
        ELSE \E pattern \in IgnoredPatterns : Contains(lowerHref, pattern)

\* the position of the first token tok of h, Len(h) + 1 if there is none
IndexOf(h, tok) ==
    IF \E i \in DOMAIN h : h[i] = tok
    THEN CHOOSE i \in DOMAIN h : h[i] = tok /\ \A j \in 1..(i - 1) : h[j] # tok
    ELSE Len(h) + 1

\* name=value&name=value as a sequence of pairs
Pairs(raw) == [i \in 1..((Len(raw) + 1) \div 4) |-> [k |-> raw[4 * i - 3], v |-> raw[4 * i - 1]]]

\* url.Parse(href) of an href of the form scheme://host path [?query] [#fragment]
Parse(href) ==
    LET f == IndexOf(href, "#")
        beforeF == SubSeq(href, 1, f - 1)
        q == IndexOf(beforeF, "?")
        hier == SubSeq(beforeF, 1, q - 1)
    IN  [scheme |-> hier[1], host |-> hier[3], path |-> SubSeq(hier, 4, Len(hier)),
         query |-> Pairs(SubSeq(beforeF, q + 1, Len(beforeF))),
         fragment |-> IF f < Len(href) THEN href[f + 1] ELSE ""]

\* the hrefs of the anchors of a document
Hrefs ==
    {<<"https", "://", "x.com", "/", "a">>,
     <<"https", "://", "x.com", "/", "a", "/">>,
     <<"https", "://", "x.com", "/", "a", "?", "utm_source", "=", "nl">>,
     <<"https", "://", "x.com", "/", "a", "#", "frag">>,
     <<"https", "://", "x.com", "/", "b", "?", "id", "=", "5">>,
     <<"https", "://", "x.com", "/", "Unsubscribe", "?", "id", "=", "5">>,
     <<"https", "://", "linkedin.com", "/", "sharing", "/", "a">>,
     <<"https", "://", "linkedin.com", "/", "shareArticle", "?", "id", "=", "5">>,
     <<"mailto:", "a">>,
     <<"#", "top">>,
     <<"http", "://", "a">>,
     <<"ftp", "://", "x.com", "/", "a">>}

\* a title the gate accepts and one it rejects
GoodTitle == <<"A">> \o [i \in 1..19 |-> "a"]
BadTitle == [i \in 1..20 |-> "a"]

\* an a[href] element with the title extractTitleFromLink resolves for it
Anchors == [href : Hrefs, title : {GoodTitle, BadTitle}]

Documents == SeqsUpTo(Anchors, MaxAnchors)

\* a lookup that never finds the url
SeenNever(seenURLs, url) == FALSE

\* seenURLs[normalizedURL]
Seen(seenURLs, url) == url \in seenURLs

\* the callback of doc.Find("a[href]").Each from anchor i on; the field anchor
\* of an emitted link records the anchor it comes from
RECURSIVE Each(_, _, _, _)
Each(doc, i, links, seenURLs) ==
    IF i > Len(doc) THEN links
    ELSE LET s == doc[i]
         IN  IF s.href = << >> \/ isIgnorableLink(s.href)
             THEN Each(doc, i + 1, links, seenURLs)
             ELSE LET parsedURL == Parse(s.href)
                      normalizedURL == normalizeURL(parsedURL)
                  IN  IF parsedURL.scheme # "http" /\ parsedURL.scheme # "https"
                      THEN Each(doc, i + 1, links, seenURLs)
                      ELSE IF Seen(seenURLs, normalizedURL)
                      THEN Each(doc, i + 1, links, seenURLs)
                      ELSE IF ~isValidTitle(s.title)
                      THEN Each(doc, i + 1, links, seenURLs \cup {normalizedURL})
                      ELSE Each(doc, i + 1,
                                Append(links, [URL |-> normalizedURL, Title |-> s.title,
                                               Domain |-> parsedURL.host,
                                               Position |-> Len(links), anchor |-> i]),
                                seenURLs \cup {normalizedURL})

extractLinks(doc) == Each(doc, 1, << >>, {})

InitExtract ==
    /\ InitState
    /\ limits = SmallMailbox
    /\ call \in {[op |-> "html", arg |-> doc, res |-> << >>] : doc \in Documents}

\* links := extractLinks(htmlBody)
CallExtractLinks ==
    /\ call.op = "html"
    /\ call' = [op |-> "extractLinks", arg |-> call.arg, res |-> extractLinks(call.arg)]
    /\ UNCHANGED <<limits, isScanning, scanStatus, scanProgress, cancelScan, store, nextId,
                   start, cancel, reply, tasks, scanNo, accepted, sinceSignal, sigScan, last>>

\* extractLinks applied to every document of the input set
ExtractSpec == InitExtract /\ [][CallExtractLinks]_vars

\* ------------------------------------------------------------------
\* internal/imap: the message range of FetchMessages
\* ------------------------------------------------------------------

\* A uint32 is kept as two 16-bit halves, value = hi * 2^16 + lo.
Half == 65536

\* the halves of the inputs: those next to 0 and those next to 2^16 - 1
Halves == (0..NearEdge) \cup ((Half - 1 - NearEdge)..(Half - 1))

Uint32 == [hi : Halves, lo : Halves]

Zero32 == [hi |-> 0, lo |-> 0]

\* uint32(1)
One32 == [hi |-> 0, lo |-> 1]

\* a > b
Gt32(a, b) == a.hi > b.hi \/ (a.hi = b.hi /\ a.lo > b.lo)

\* a - b in uint32: the result wraps around below zero
Sub32(a, b) ==
    LET borrow == IF a.lo < b.lo THEN 1 ELSE 0
    IN  [hi |-> (a.hi - b.hi - borrow + 2 * Half) % Half, lo |-> (a.lo - b.lo + Half) % Half]

\* a + b in uint32: the result wraps around above 2^32 - 1
Add32(a, b) ==
    LET carry == IF a.lo + b.lo >= Half THEN 1 ELSE 0
    IN  [hi |-> (a.hi + b.hi + carry) % Half, lo |-> (a.lo + b.lo) % Half]

\* a FetchMessages that computes from whenever a limit is given
FetchMessagesNoCompare(messages, limit) ==
    IF messages = Zero32 THEN [fetch |-> FALSE, from |-> Zero32, to |-> Zero32]
    ELSE LET from == IF Gt32(limit, Zero32)
                     THEN Add32(Sub32(messages, limit), One32)
                     ELSE One32
         IN  [fetch |-> TRUE, from |-> from, to |-> messages]

\* FetchMessages up to seqset.AddRange(from, to), messages being mbox.Messages;
\* fetch tells whether a range is requested from the server
FetchMessages(messages, limit) ==
    IF messages = Zero32 THEN [fetch |-> FALSE, from |-> Zero32, to |-> Zero32]
    ELSE LET from == IF Gt32(limit, Zero32) /\ Gt32(messages, limit)
                     THEN Add32(Sub32(messages, limit), One32)
                     ELSE One32
         IN  [fetch |-> TRUE, from |-> from, to |-> messages]

InitFetch ==
    /\ InitState
    /\ limits = SmallMailbox
    /\ call \in {[op |-> "folder", arg |-> a, res |-> << >>] : a \in [messages : Uint32, limit : Uint32]}

\* client.FetchMessages(folder, limit) on a folder of call.arg.messages messages
CallFetchMessages ==
    /\ call.op = "folder"
    /\ call' = [op |-> "FetchMessages", arg |-> call.arg,
                res |-> FetchMessages(call.arg.messages, call.arg.limit)]
    /\ UNCHANGED <<limits, isScanning, scanStatus, scanProgress, cancelScan, store, nextId,
                   start, cancel, reply, tasks, scanNo, accepted, sinceSignal, sigScan, last>>

\* FetchMessages applied to every folder size and limit of the input set
FetchSpec == InitFetch /\ [][CallFetchMessages]_vars

\* ------------------------------------------------------------------
\* internal/imap: extractHTMLFromMIME
\* ------------------------------------------------------------------

\* the bytes of the whole message, returned when nothing better is found
RawBody == <<0>>

\* the body of part i of a message: empty, or bytes that identify the part
BodyOf(parts, i) == IF parts[i].empty THEN << >> ELSE <<i>>

\* an inline part: its content type and whether its body is empty
MimeParts == [type : {"text/html", "text/plain", "image/png"}, empty : BOOLEAN]

\* a multipart body and how it parses: mail.CreateReader succeeds ("mail"), or
\* only message.Read does ("entity"), or neither ("none")
MimeBodies == [reader : {"mail", "entity", "none"}, parts : SeqsUpTo(MimeParts, MaxParts)]

\* the loop over mr.NextPart(): htmlContent and textContent after part i
RECURSIVE MailParts(_, _, _, _)
MailParts(parts, i, htmlContent, textContent) ==
    IF i > Len(parts) THEN [html |-> htmlContent, text |-> textContent]
    ELSE IF parts[i].type = "text/html"
         THEN MailParts(parts, i + 1, BodyOf(parts, i), textContent)
         ELSE IF parts[i].type = "text/plain" /\ textContent = << >>
         THEN MailParts(parts, i + 1, htmlContent, BodyOf(parts, i))
         ELSE MailParts(parts, i + 1, htmlContent, textContent)

\* the loop over mpReader.NextPart() of the single-entity branch: the body of the
\* first non-empty text/html part from part i on; without one the entity's own
\* content type is multipart, neither text/html nor text/plain
RECURSIVE EntityParts(_, _)
EntityParts(parts, i) ==
    IF i > Len(parts) THEN RawBody
    ELSE IF parts[i].type = "text/html" /\ BodyOf(parts, i) # << >>
         THEN BodyOf(parts, i)
         ELSE EntityParts(parts, i + 1)

extractHTMLFromMIME(body) ==
    IF body.reader = "none" THEN RawBody
    ELSE IF body.reader = "entity" THEN EntityParts(body.parts, 1)
    ELSE LET found == MailParts(body.parts, 1, << >>, << >>)
         IN  IF found.html # << >> THEN found.html
             ELSE IF found.text # << >> THEN found.text
             ELSE RawBody

InitMime ==
    /\ InitState
    /\ limits = SmallMailbox
    /\ call \in {[op |-> "body", arg |-> b, res |-> << >>] : b \in MimeBodies}

\* htmlContent := extractHTMLFromMIME(body)
CallExtractHTMLFromMIME ==
    /\ call.op = "body"
    /\ call' = [op |-> "extractHTMLFromMIME", arg |-> call.arg,
                res |-> extractHTMLFromMIME(call.arg)]
    /\ UNCHANGED <<limits, isScanning, scanStatus, scanProgress, cancelScan, store, nextId,
                   start, cancel, reply, tasks, scanNo, accepted, sinceSignal, sigScan, last>>

\* extractHTMLFromMIME applied to every body of the input set
MimeSpec == InitMime /\ [][CallExtractHTMLFromMIME]_vars

\* ------------------------------------------------------------------
\* internal/imap: extractTitleFromLink, the ancestor strategy
\* ------------------------------------------------------------------

\* cleaned heading texts: digits only, or letters, of 2, 5 or MaxHeading bytes
HeadingTexts == {[i \in 1..n |-> c] : n \in {2, 5, MaxHeading}, c \in {"A", "1"}}

\* a heading-like element (h1..h4, strong) near the link: its text and the
\* lowest ancestor level of the link that contains it
Headings == [text : HeadingTexts, depth : 1..MaxDepth]

\* the heading-like elements around a link, in document order
Surroundings == SeqsUpTo(Headings, MaxHeadings)

\* the closure isValidTitle of extractTitleFromLink for texts that are neither
\* the href nor a url: at least 3 bytes and a letter among them
IsUsableTitle(t) == Len(t) >= MinUsable /\ \E i \in DOMAIN t : t[i] = "A"

\* parent.Find("h1, h2, h3, h4, strong") at ancestor level k
FindHeadings(doc, k) ==
    LET inside == SelectSeq(doc, LAMBDA h : h.depth <= k)
    IN  [i \in DOMAIN inside |-> inside[i].text]

\* the callback of .Each over the headings of one level, from heading j on
RECURSIVE EachHeading(_, _, _)
EachHeading(hs, j, title) ==
    IF j > Len(hs) THEN title
    ELSE IF ~IsUsableTitle(title) /\ IsUsableTitle(hs[j]) /\ Len(hs[j]) > Len(title)
         THEN EachHeading(hs, j + 1, hs[j])
         ELSE EachHeading(hs, j + 1, title)

\* for i := 0; i < 5; i++ { ...; if isValidTitle(title) { break }; parent = parent.Parent() }
RECURSIVE Ancestors(_, _, _)
Ancestors(doc, k, title) ==
    IF k > AncestorLevels THEN title
    ELSE LET found == EachHeading(FindHeadings(doc, k), 1, title)
         IN  IF IsUsableTitle(found) THEN found ELSE Ancestors(doc, k + 1, found)

\* strategy 2 of extractTitleFromLink for a link that is not a Medium link: the
\* title it finds, empty if it finds none
AncestorTitle(doc) == Ancestors(doc, 1, << >>)

InitHeadings ==
    /\ InitState
    /\ limits = SmallMailbox
    /\ call \in {[op |-> "link", arg |-> doc, res |-> << >>] : doc \in Surroundings}

\* title := extractTitleFromLink(s, href, parsedURL)
CallAncestorTitle ==
    /\ call.op = "link"
    /\ call' = [op |-> "extractTitleFromLink", arg |-> call.arg, res |-> AncestorTitle(call.arg)]
    /\ UNCHANGED <<limits, isScanning, scanStatus, scanProgress, cancelScan, store, nextId,
                   start, cancel, reply, tasks, scanNo, accepted, sinceSignal, sigScan, last>>

\* the ancestor strategy applied to every arrangement of headings of the input set
HeadingSpec == InitHeadings /\ [][CallAncestorTitle]_vars

\* ------------------------------------------------------------------
\* Claims
\* ------------------------------------------------------------------

LiveTasks == {t \in TaskIds : Live(t)}

\* C1: at most one scan task (performScan) exists at any time, under every
\* interleaving of StartScan, CancelScan and scan-task steps.
C1_SingleScanTask == Cardinality(LiveTasks) <= 1

\* a StartScan is answered 'already running' while the scan task is alive
C1_Witness == reply = "conflict" /\ LiveTasks # {}

\* C2: a StartScan call made while is_running is true answers 'already running'
\* and leaves ScanProgress, ScanRunSummary, the running flag, the cancellation
\* slot and the set of scan tasks as they were.
C2_StartWhileRunning ==
    [][\A h \in StartProcs :
          (scanStatus.IsRunning /\ StartScanEntry(h)) =>
              /\ reply' = "conflict"
              /\ UNCHANGED <<scanProgress, scanStatus, isScanning, cancelScan, tasks>>]_vars

\* a StartScan has just been refused while a scan that made progress is running
C2_Witness ==
    /\ reply = "conflict"
    /\ scanStatus.IsRunning
    /\ scanProgress.Status = "scanning"
    /\ scanProgress.EmailsProcessed > 0

\* C3: when the scan task observed the cancellation signal, then once the running
\* flag is cleared the progress status is cancelled and last_error holds the
\* cancellation message.
C3_CancelledIsTerminal ==
    (~isScanning /\ last.exit = "cancelled") =>
        /\ scanProgress.Status = "cancelled"
        /\ scanStatus.LastError = CancelMsg

\* C4: a scan that has had a CancelScan answered 'cancelling' never finishes
\* through the normal completion path.
C4_AcceptedCancelCancels ==
    /\ \A t \in TaskIds : tasks[t].exit = "completed" => ~accepted
    /\ last.exit = "completed" => ~accepted

\* C5: while a cancellation signal is pending the scan task processes at most 10
\* further messages.
C5_LatencyBound == sinceSignal <= CheckEvery

\* ten messages were processed under a pending signal
C5_Witness == sinceSignal = CheckEvery /\ cancelScan = 1

\* C6: when connecting fails, then once the running flag is cleared last_error
\* holds the connection error, the progress status is error and nothing was
\* processed.
C6_ConnectFailureIsError ==
    (~isScanning /\ last.exit = "error") =>
        /\ scanStatus.LastError = ConnectErr
        /\ scanProgress.Status = "error"
        /\ scanProgress.EmailsTotal = 0
        /\ scanProgress.EmailsProcessed = 0
        /\ scanProgress.FoldersProcessed = 0

InStartScan(h) == start[h].pc \in {"token", "session", "drain", "respond", "go"}

C7_FlagOwned ==
    isScanning => (LiveTasks # {} \/ \E h \in StartProcs : InStartScan(h))

\* C7: the running flag is set only while a StartScan handler or a scan task is
\* active, and every time it is set it is eventually cleared.
C7_FlagEventuallyCleared == [](C7_FlagOwned) /\ (isScanning ~> ~isScanning)

\* the flag is clear again after a StartScan that failed to obtain its session
C7_Witness == ~isScanning /\ reply = "unauthorized" /\ scanNo > 0

Exited(r) == r.pc = "defer"

FolderFailureIsolated(r) ==
    (Exited(r) /\ r.failedAt > 0 /\ r.exit # "cancelled") =>
        /\ r.walked = Len(r.folders)
        /\ scanProgress.Status = "completed"
        /\ scanStatus.LastError = ""

\* C8: a scan in which a folder fetch failed and no cancellation occurred has
\* walked every requested folder and ends completed with an empty last_error.
C8_FolderFailureIsolated ==
    /\ \A t \in TaskIds : FolderFailureIsolated(tasks[t])
    /\ ~isScanning => FolderFailureIsolated(last)

\* the first of two folders failed, the second was walked and had a message
C8_Witness ==
    /\ ~isScanning
    /\ Exited(last)
    /\ last.failedAt = 1
    /\ Len(last.folders) = 2
    /\ last.walked = 2
    /\ scanProgress.EmailsProcessed = 1

\* C9: after a scan that exhausted its folders, status=completed,
\* percent_complete=100, folders_processed=folders_total, last_emails_scanned is
\* the scan's emails_processed and last_error is empty.
C9_CompletedFinalState ==
    (~isScanning /\ last.exit = "completed") =>
        /\ scanProgress.Status = "completed"
        /\ scanProgress.PercentComplete = 100
        /\ scanProgress.FoldersTotal = Len(last.folders)
        /\ scanProgress.FoldersProcessed = scanProgress.FoldersTotal
        /\ scanStatus.LastEmailsScanned = scanProgress.EmailsProcessed
        /\ scanStatus.LastError = ""

\* a second scan completed with messages after a first one ended with an error
C9_Witness ==
    /\ ~isScanning
    /\ last.exit = "completed"
    /\ last.scan = 2
    /\ scanProgress.EmailsProcessed > 0

\* C10: at the end of a scan articles_found equals the number of article records
\* the scan added to the store.
C10_ArticlesFoundCountsInserts ==
    (~isScanning /\ Exited(last)) => scanProgress.ArticlesFound = last.added

\* C11: the article store holds at most one record per URL, and inserting a URL
\* that is already stored leaves the table unchanged and returns no error.
C11_OneRecordPerUrl ==
    /\ [](\A r1, r2 \in store : r1.url = r2.url => r1 = r2)
    /\ [][(call'.op = "IndexArticle" /\ DbIndexArticle /\ Stored(call'.arg.url) # {}) =>
              (store' = store /\ call'.res = "nil")]_vars

\* a url that was deleted and inserted again is stored once, and a second insert
\* of it with another title has just been ignored
C11_Witness ==
    /\ call.op = "IndexArticle"
    /\ call.arg.title = "t2"
    /\ \E r \in store : r.url = call.arg.url /\ r.title = "t1" /\ r.id = 2
    /\ Cardinality(store) = 2

\* C12: once StartScan has answered 'started', a progress snapshot never shows
\* the previous scan's final status or counters.
C12_ResetBeforeAck ==
    ((\E h \in StartProcs : start[h].pc = "go") \/ (\E t \in TaskIds : tasks[t].pc = "init")) =>
        /\ scanProgress.Status \notin {"completed", "cancelled", "error"}
        /\ scanProgress.EmailsTotal = 0
        /\ scanProgress.EmailsProcessed = 0
        /\ scanProgress.ArticlesFound = 0

\* C13: a scan task is cancelled only by a signal that was posted by a CancelScan
\* call issued while that same scan held the running flag.
C13_NoStaleCancel ==
    /\ \A t \in TaskIds : tasks[t].pc = "cancelled" => tasks[t].by = tasks[t].scan
    /\ last.exit = "cancelled" => last.by = last.scan

\* C14: a CancelScan call made when no scan is running answers 'nothing running',
\* posts no signal and leaves ScanProgress, ScanRunSummary and the flag unchanged.
C14_CancelWhenIdle ==
    [][\A c \in CancelProcs :
          (~isScanning /\ CancelCheck(c)) =>
              /\ reply' = "nothing running"
              /\ cancel'[c].pc = "idle"
              /\ UNCHANGED <<cancelScan, scanProgress, scanStatus, isScanning>>]_vars

\* a CancelScan has just been refused after a scan that ran and ended
C14_Witness ==
    /\ reply = "nothing running"
    /\ ~isScanning
    /\ Exited(last)

\* C15: the cancellation slot never holds more than one signal, and a handler
\* that is about to post can always take its step.
C15_SingleSlot ==
    /\ cancelScan <= 1
    /\ \A c \in CancelProcs : cancel[c].pc = "post" => ENABLED CancelPost(c)

\* a CancelScan has just answered 'cancelling' without posting: the signal of an
\* earlier call was pending and a message had been processed since
C15_Witness ==
    /\ reply = "cancelling"
    /\ cancelScan = 1
    /\ sinceSignal > 0

\* the permutations of a sequence of pairs
PermsOf(q) ==
    {[i \in DOMAIN q |-> q[f[i]]] :
        f \in {g \in [DOMAIN q -> DOMAIN q] : \A i, j \in DOMAIN q : i # j => g[i] # g[j]}}

\* C16: the normalized url has the input's scheme, host and path less one trailing
\* slash, carries exactly the input's non-tracking parameters with their values
\* (in some order), has no '?' when none remains and has no fragment; the two
\* examples of the specification come out as written.
C16_NormalizeURL ==
    /\ call.op = "normalizeURL" =>
         LET u == call.arg
             kept == SelectSeq(u.query, LAMBDA p : p.k \notin TrackingParams)
             path == IF u.path # << >> /\ u.path[Len(u.path)] = "/"
                     THEN SubSeq(u.path, 1, Len(u.path) - 1) ELSE u.path
         IN  \E q \in PermsOf(kept) :
                call.res = <<u.scheme, "://", u.host>> \o path \o
                           (IF q = << >> THEN << >> ELSE <<"?">> \o QueryString(q))
    /\ normalizeURL([scheme |-> "https", host |-> "x.com", path |-> <<"/", "a">>,
                     query |-> <<[k |-> "utm_source", v |-> "nl"], [k |-> "id", v |-> "5"]>>,
                     fragment |-> "frag"])
         = <<"https", "://", "x.com", "/", "a", "?", "id", "=", "5">>
    /\ normalizeURL([scheme |-> "https", host |-> "x.com", path |-> <<"/", "a", "/">>,
                     query |-> <<[k |-> "utm_source", v |-> "nl"]>>, fragment |-> ""])
         = <<"https", "://", "x.com", "/", "a">>

\* a url with a trailing slash, a fragment, a tracking parameter and two other
\* parameters given out of sorted order has been normalized
C16_Witness ==
    /\ call.op = "normalizeURL"
    /\ call.arg.path = <<"/", "a", "/">>
    /\ call.arg.fragment = "frag"
    /\ call.arg.query = <<[k |-> "page", v |-> "5"], [k |-> "fbclid", v |-> "5"],
                         [k |-> "id", v |-> "nl"]>>
    /\ call.res = <<"https", "://", "x.com", "/", "a", "?", "id", "=", "nl", "&", "page", "=", "5">>

\* C17: the title gate accepts a title exactly when it has at least 20 characters
\* and its first character is an uppercase letter, whatever the alphabet.
C17_TitleGate ==
    call.op = "isValidTitle" =>
        (call.res = (Len(call.arg) >= 20 /\ IsUpper(call.arg[1])))

\* the href matches the ignore rules as the specification words them: it begins
\* with '#', is shorter than 10 characters, or contains an entry of the ignore
\* list, letter case disregarded
MatchesIgnoreList(href) ==
    \/ href # << >> /\ href[1] = "#"
    \/ HrefLen(href) < 10
    \/ \E pattern \in IgnoredPatterns : Contains(ToLower(href), ToLower(pattern))

\* C18: no emitted link comes from an anchor whose href matches the ignore list,
\* begins with '#' or is shorter than 10 characters.
C18_NoIgnoredHref ==
    call.op = "extractLinks" =>
        \A i \in DOMAIN call.res : ~MatchesIgnoreList(call.arg[call.res[i].anchor].href)

\* C19: within one extraction no two emitted links have the same canonical url,
\* emitted links are in the document order of their anchors, and each carries the
\* canonical url of its anchor.
C19_UniqueInOrder ==
    call.op = "extractLinks" =>
        /\ \A i, j \in DOMAIN call.res :
              i < j => /\ call.res[i].URL # call.res[j].URL
                       /\ call.res[i].anchor < call.res[j].anchor
        /\ \A i \in DOMAIN call.res :
              /\ call.res[i].Position = i - 1
              /\ call.res[i].URL = normalizeURL(Parse(call.arg[call.res[i].anchor].href))

\* three anchors with accepted titles, the first two with different hrefs of one
\* canonical url: the first and the third are emitted
C19_Witness ==
    /\ call.op = "extractLinks"
    /\ Len(call.arg) = 3
    /\ call.arg[1].href # call.arg[2].href
    /\ \A i \in 1..3 : call.arg[i].title = GoodTitle /\ ~isIgnorableLink(call.arg[i].href)
    /\ normalizeURL(Parse(call.arg[1].href)) = normalizeURL(Parse(call.arg[2].href))
    /\ Len(call.res) = 2
    /\ call.res[1].anchor = 1
    /\ call.res[2].anchor = 3

\* C20: an empty folder is answered without fetching; otherwise the range is
\* [from, total] with 1 <= from <= total, holding limit messages when
\* 0 < limit < total and beginning at 1 otherwise.
C20_FetchRange ==
    call.op = "FetchMessages" =>
        LET total == call.arg.messages
            limit == call.arg.limit
            r == call.res
        IN  /\ total = Zero32 => ~r.fetch
            /\ total # Zero32 =>
                 /\ r.fetch
                 /\ r.to = total
                 /\ r.from # Zero32
                 /\ ~Gt32(r.from, total)
                 /\ IF limit # Zero32 /\ Gt32(total, limit)
                    THEN Sub32(total, r.from) = Sub32(limit, One32)
                    ELSE r.from = One32

\* a folder of 2^16 messages fetched with limit 2^16 - 1: the range is [2, 2^16]
C20_Witness ==
    /\ call.op = "FetchMessages"
    /\ call.arg.messages = [hi |-> 1, lo |-> 0]
    /\ call.arg.limit = [hi |-> 0, lo |-> 65535]
    /\ call.res = [fetch |-> TRUE, from |-> [hi |-> 0, lo |-> 2], to |-> [hi |-> 1, lo |-> 0]]

\* C30: from the step in which a StartScan takes the running flag up to the step
\* in which it fails to obtain the token or the session, no step changes
\* ScanProgress, the fields of ScanRunSummary other than is_running or the set of
\* scan tasks, and none takes a signal out of the cancellation slot; the failing
\* step clears the running flag and is_running.
C30_FailedStartRestores ==
    [][\A h \in StartProcs :
          ((start[h].pc = "idle" /\ start'[h].pc = "token") \/ start[h].pc \in {"token", "session"}) =>
              /\ scanProgress' = scanProgress
              /\ tasks' = tasks
              /\ cancelScan' >= cancelScan
              /\ scanStatus' = [scanStatus EXCEPT !.IsRunning = scanStatus'.IsRunning]
              /\ (start[h].pc # "idle" /\ start'[h].pc = "idle") =>
                    (~isScanning' /\ ~scanStatus'.IsRunning /\ reply' = "unauthorized")]_vars

\* a StartScan has just failed after an earlier scan ended and while a signal
\* was waiting in the slot
C30_Witness ==
    /\ reply = "unauthorized"
    /\ ~isScanning
    /\ cancelScan = 1
    /\ scanProgress.Status = "completed"
    /\ \A t \in TaskIds : ~Live(t) \/ Exited(tasks[t])

\* the canonical url of anchor i of a document
CanonicalOf(doc, i) == normalizeURL(Parse(doc[i].href))

\* C22: an anchor that passes the filter stage and the title gate is emitted
\* unless a link of the same canonical url was emitted from an earlier anchor.
C22_SkipOnlyEmitted ==
    call.op = "extractLinks" =>
        \A i \in DOMAIN call.arg :
            (/\ ~isIgnorableLink(call.arg[i].href)
             /\ Parse(call.arg[i].href).scheme \in {"http", "https"}
             /\ isValidTitle(call.arg[i].title)
             /\ ~\E j \in DOMAIN call.res :
                    call.res[j].anchor < i /\ call.res[j].URL = CanonicalOf(call.arg, i))
            => \E j \in DOMAIN call.res : call.res[j].anchor = i

\* C27: an anchor with an http(s) href that carries a fragment after its first
\* character, is at least 10 bytes long, contains no ignore-list entry other than
\* '#', has a title passing the gate and follows no anchor of the same canonical
\* url, is emitted with the fragment stripped.
C27_FragmentHrefEmitted ==
    call.op = "extractLinks" =>
        \A i \in DOMAIN call.arg :
            LET href == call.arg[i].href
            IN  (/\ Contains(href, <<"#">>)
                 /\ href[1] # "#"
                 /\ HrefLen(href) >= 10
                 /\ ~\E pattern \in IgnoredPatterns \ {<<"#">>} : Contains(ToLower(href), pattern)
                 /\ Parse(href).scheme \in {"http", "https"}
                 /\ isValidTitle(call.arg[i].title)
                 /\ ~\E k \in 1..(i - 1) : CanonicalOf(call.arg, k) = CanonicalOf(call.arg, i))
                => \E j \in DOMAIN call.res :
                      /\ call.res[j].anchor = i
                      /\ call.res[j].URL = String([Parse(href) EXCEPT !.fragment = ""])

\* C29: normalizing the parsed result of normalizeURL(u) returns the same string.
C29_NormalizeIdempotent ==
    call.op = "normalizeURL" => normalizeURL(Parse(call.res)) = call.res

\* C24: whenever the running flag is false no scan task holds an open mailbox
\* connection, and the task that exited last had closed its connection before
\* its deferred function cleared the flag.
C24_ConnectionReleased ==
    /\ ~isScanning => \A t \in TaskIds : ~tasks[t].conn
    /\ Exited(last) => ~last.conn
    /\ \A t \in TaskIds : tasks[t].pc = "defer" => ~tasks[t].conn

\* a scan that had connected and was cancelled at a message check has ended
C24_Witness ==
    /\ ~isScanning
    /\ last.exit = "cancelled"
    /\ last.n > 0
    /\ last.j < last.n
    /\ ~last.conn

\* C25: whenever folders_total > 0, percent_complete is folders_processed * 100 /
\* folders_total in integer division and lies in 0..100; while folder i (0-based)
\* of the request is about to be fetched, current_folder is that folder and
\* folders_processed is i.
C25_PercentComplete ==
    /\ scanProgress.FoldersTotal > 0 =>
         /\ scanProgress.PercentComplete =
               (scanProgress.FoldersProcessed * 100) \div scanProgress.FoldersTotal
         /\ scanProgress.PercentComplete \in 0..100
    /\ \A t \in TaskIds :
         tasks[t].pc = "fetch" =>
             /\ scanProgress.CurrentFolder = tasks[t].folders[tasks[t].i + 1]
             /\ scanProgress.FoldersProcessed = tasks[t].i

\* the second of three folders is about to be fetched: 1 * 100 / 3 = 33
C25_Witness ==
    \E t \in TaskIds :
        /\ tasks[t].pc = "fetch"
        /\ tasks[t].folders = <<"A", "B", "C">>
        /\ scanProgress.CurrentFolder = "B"
        /\ scanProgress.FoldersProcessed = 1
        /\ scanProgress.PercentComplete = 33

\* the inserts of task r that failed so far: links taken from messages, less those
\* still waiting and those for which IndexArticle returned nil
Failed(r) == r.seen - Len(r.links) - r.total

\* C26: a failed insert takes exactly that link off the message's list, leaves
\* the task in the link loop and changes neither the store, ScanProgress nor
\* ScanRunSummary; the step that ends the message adds one to emails_processed
\* and publishes as articles_found the number of links whose insert returned nil.
C26_PersistenceFailureSkipsLink ==
    [][\A t \in TaskIds :
          /\ (/\ tasks[t].pc = "links"
              /\ tasks[t].links # << >>
              /\ tasks'[t] # tasks[t]
              /\ tasks'[t].total = tasks[t].total)
             => /\ tasks'[t] = [tasks[t] EXCEPT !.links = Tail(@)]
                /\ UNCHANGED <<store, nextId, scanProgress, scanStatus>>
          /\ (tasks[t].pc = "links" /\ tasks[t].links = << >> /\ tasks'[t] # tasks[t])
             => /\ tasks'[t].pc = "msg"
                /\ tasks'[t].j = tasks[t].j + 1
                /\ scanProgress'.EmailsProcessed = scanProgress.EmailsProcessed + 1
                /\ scanProgress'.ArticlesFound = tasks[t].seen - Failed(tasks[t])
                /\ scanStatus' = scanStatus]_vars

\* a message of two links, one of which failed to be stored, has been counted
C26_Witness ==
    \E t \in TaskIds :
        /\ tasks[t].pc = "msg"
        /\ tasks[t].seen = 2
        /\ Failed(tasks[t]) = 1
        /\ Cardinality(store) = 1
        /\ scanProgress.EmailsProcessed = 1
        /\ scanProgress.ArticlesFound = 1
        /\ scanStatus.LastError = ""

\* C28: emails_processed <= emails_total and folders_processed <= folders_total
\* in every state, and no step other than the reset that begins a scan's record
\* decreases emails_total, emails_processed, articles_found, folders_processed
\* or percent_complete.
C28_CountersMonotone ==
    /\ [](/\ scanProgress.EmailsProcessed <= scanProgress.EmailsTotal
          /\ scanProgress.FoldersProcessed <= scanProgress.FoldersTotal)
    /\ [][(\E t \in TaskIds : tasks[t].pc = "init" /\ tasks'[t].pc = "connect") \/
          (/\ scanProgress'.EmailsTotal >= scanProgress.EmailsTotal
           /\ scanProgress'.EmailsProcessed >= scanProgress.EmailsProcessed
           /\ scanProgress'.ArticlesFound >= scanProgress.ArticlesFound
           /\ scanProgress'.FoldersProcessed >= scanProgress.FoldersProcessed
           /\ scanProgress'.PercentComplete >= scanProgress.PercentComplete)]_vars

\* every message of a two-folder scan has been processed and the scan completed
C28_Witness ==
    /\ scanProgress.Status = "completed"
    /\ scanProgress.FoldersProcessed = 2
    /\ scanProgress.EmailsTotal = 2
    /\ scanProgress.EmailsProcessed = 2
    /\ scanProgress.ArticlesFound > 0
    /\ scanProgress.PercentComplete = 100

\* the parts of the given type with a non-empty body
NonEmpty(parts, type) == {i \in DOMAIN parts : parts[i].type = type /\ ~parts[i].empty}

\* the least element of a non-empty set of part numbers
First(S) == CHOOSE i \in S : \A j \in S : i <= j

\* C21: for a multipart body that parses, the result is the body of the first
\* non-empty text/html part if there is one, otherwise that of the first
\* non-empty text/plain part if there is one, otherwise the raw bytes.
C21_FirstHtmlPart ==
    (call.op = "extractHTMLFromMIME" /\ call.arg.reader # "none") =>
        LET parts == call.arg.parts
        IN  call.res =
              IF NonEmpty(parts, "text/html") # {}
              THEN BodyOf(parts, First(NonEmpty(parts, "text/html")))
              ELSE IF NonEmpty(parts, "text/plain") # {}
              THEN BodyOf(parts, First(NonEmpty(parts, "text/plain")))
              ELSE RawBody

\* the usable headings of ancestor level k
UsableAt(doc, k) == {t \in Range(FindHeadings(doc, k)) : IsUsableTitle(t)}

\* C23: when one of the first 5 ancestor levels contains a usable heading, the
\* title is the longest usable heading of the first such level.
C23_LongestCandidate ==
    call.op = "extractTitleFromLink" =>
        \A k \in 1..AncestorLevels :
            (UsableAt(call.arg, k) # {} /\ \A m \in 1..(k - 1) : UsableAt(call.arg, m) = {})
            => /\ call.res \in UsableAt(call.arg, k)
               /\ \A t \in UsableAt(call.arg, k) : Len(t) <= Len(call.res)

====
